---- MODULE Spec2Model ----
(***************************************************************************)
(* Model of the inferelator regression engine                              *)
(* (inferelator/regression/base_regression.py): the pileup of per-gene     *)
(* regression results into dense G x K matrices, the single-task and       *)
(* multi-task bootstrap loops, the OLS refit on selected predictors, the   *)
(* preprocessing of X and Y, the prior matrix kept at construction and the *)
(* error reduction of each predictor; and of the noise simulation          *)
(* (inferelator/preprocessing/simulate_data.py).                           *)
(*                                                                         *)
(* Specifications: Spec (pileup), SpecBoot (bootstrap loops), SpecBetas    *)
(* (refit), SpecGene (gene_preprocess), SpecFull (full_preprocess),        *)
(* SpecPrior (construction), SpecSim (make_data_noisy), SpecErr            *)
(* (predict_error_reduction).  Each one holds the variables of the others  *)
(* at rest.                                                                *)
(*                                                                         *)
(* Python indices are 0-based (data['ind']); TLA+ sequences are 1-based,   *)
(* so row `ind` of a numpy array is element ind + 1 of a sequence.         *)
(***************************************************************************)
EXTENDS Integers, Sequences, FiniteSets, TLC

(***************************************************************************)
(* Bounds of the model.                                                    *)
(***************************************************************************)
\* largest number of response variables (genes) of an engine
MaxG == 2
\* largest number of predictors (TFs) of an engine
MaxK == 2
\* longest per-gene result sequence handed to pileup_data
MaxLen == 2

\* largest num_bootstraps of a workflow
MaxBoot == 2
\* largest random_seed of a workflow
MaxSeed == 1
\* largest number of tasks of a multi-task workflow
MaxTasks == 2
\* how many times run_regression is called on one workflow
MaxRuns == 2

\* largest number of samples (rows of x) of a refit
MaxN == 2
\* largest number of predictors (columns of x) of a refit
MaxP == 2

\* largest number of samples (rows) of a matrix given to make_data_noisy
MaxSamples == 4
\* largest number of genes (columns) of such a matrix
MaxGenes == 4
\* largest number of entries of such a matrix
MaxCells == 8

\* _row_gen(n_vec, chunksize=2000) and _col_gen(vals, chunksize=200): the
\* chunk sizes, scaled down so that an input of a few samples or genes
\* spans more than one chunk
RowChunk == 2
ColChunk == 2

\* entries of the predictor matrix and of the response vector of a refit
XVals == {0, 1}
YVals == {0, 1, 2}

\* coefficient and score magnitudes a per-gene fit may report
CoefVals == {1, 2}
ScoreVals == {5}

VARIABLES
    G,            \* BaseRegression.G
    K,            \* BaseRegression.K
    genes,        \* BaseRegression.genes  (Y.gene_names)
    tfs,          \* BaseRegression.tfs    (X.gene_names)
    run_data,     \* the list regress() handed to pileup_data
    out,          \* what run() gave its caller
    epc,          \* position of run(): "new", "regressed", "done"
    variant,      \* "single": _RegressionWorkflowMixin, "multi": _Multitask...
    num_bootstraps, \* self.num_bootstraps
    random_seed,  \* self.random_seed
    n_tasks,      \* self._n_tasks
    null_at,      \* the fit (iteration, gene) for which the strategy yields None
    rng,          \* numpy's global random state
    bootstraps,   \* list(self.get_bootstraps())
    idx,          \* loop variable of run_regression
    betas,        \* local list betas of run_regression
    rescaled_betas, \* local list rescaled_betas of run_regression
    bpc,          \* position of run_regression: "idle", "loop", "seeded"
    ret,          \* what the last run_regression call gave its caller
    log,          \* the calls run_regression made so far, in order:
                  \* <<"seed", s>> for np.random.seed(s) and
                  \* <<"run_bootstrap", idx, rng at the call, what it gave>>
    runs,         \* what each finished run_regression call gave its caller
    x,            \* recalculate_betas_from_selected: predictor matrix [N x k]
    y,            \* recalculate_betas_from_selected: response vector [N]
    sel,          \* recalculate_betas_from_selected: the idx argument
    best_betas,   \* what recalculate_betas_from_selected gave its caller
    fpc,          \* position of the refit: "call", "done"
    remove_circularity, \* PreprocessData.remove_circularity
    gp_X,         \* gene_preprocess: X, activity matrix [N x K]
    gp_Y,         \* gene_preprocess: Y, expression vector of the gene
    gp_prior,     \* gene_preprocess: prior_data.loc[gene, :].values.flatten()
    gp_out,       \* what gene_preprocess gave its caller
    gp_pc,        \* position of gene_preprocess: "call", "done"
    fp_X,         \* full_preprocess: the caller's X (a matrix or a list)
    fp_Y,         \* full_preprocess: the caller's Y (a matrix or a list)
    fp_X0,        \* contents of the caller's X before the call
    fp_Y0,        \* contents of the caller's Y before the call
    ddof,         \* full_preprocess: ddof
    scale_y,      \* full_preprocess: scale_y
    fp_out,       \* what full_preprocess gave its caller
    fp_pc,        \* position of full_preprocess: "call", "done"
    prior_in,     \* BaseRegression.__init__: the prior_mat argument
    prior_mat,    \* BaseRegression.prior_mat
    cpc,          \* position of __init__: "call", "done"
    expr,         \* make_data_noisy: data.expression_data [samples x genes]
    is_integer,   \* make_data_noisy: data._is_integer
    expr0,        \* data.expression_data before make_data_noisy
    spc,          \* position of make_data_noisy: "call", "done", "raised"
    er_x,         \* predict_error_reduction: x [n x k]
    er_y,         \* predict_error_reduction: y [n]
    er_betas,     \* predict_error_reduction: betas [k]
    error_reduction, \* what predict_error_reduction gave its caller
    refits,       \* the leave-one-out refits it made: <<lost, leave_out>>
    er_pc         \* position of predict_error_reduction: "call", "done"

evars == <<G, K, genes, tfs, run_data, out, epc>>
wvars == <<variant, num_bootstraps, random_seed, n_tasks, null_at>>
bvars == <<rng, bootstraps, idx, betas, rescaled_betas, bpc, ret, log, runs>>
fvars == <<x, y, sel, best_betas, fpc>>
gvars == <<remove_circularity, gp_X, gp_Y, gp_prior, gp_out, gp_pc>>
pvars == <<fp_X, fp_Y, fp_X0, fp_Y0, ddof, scale_y, fp_out, fp_pc>>
cvars == <<prior_in, prior_mat, cpc>>
svars == <<expr, is_integer, expr0, spc>>
rvars == <<er_x, er_y, er_betas, error_reduction, refits, er_pc>>
xvars == <<gvars, pvars, cvars, svars, rvars>>
vars == <<evars, wvars, bvars, fvars, xvars>>

(***************************************************************************)
(* Values                                                                  *)
(***************************************************************************)
\* Python's None as an element of run_data
None == [isnone |-> TRUE]

\* Y.gene_names / X.gene_names : stable identifiers in stored order
GeneName(i) == <<"gene", i>>
TfName(j) == <<"tf", j>>

\* number of True entries among pp[1..j]: the position a boolean-mask
\* assignment takes its j-th value from
RECURSIVE CountTrue(_, _)
CountTrue(pp, j) ==
    IF j = 0 THEN 0
    ELSE CountTrue(pp, j - 1) + (IF pp[j] THEN 1 ELSE 0)

\* A well-formed PerGeneFitResult for an engine with g genes and k predictors:
\* `ind` a row index, `pp` a boolean mask of size k, `betas` and `betas_resc`
\* one value per selected predictor.
FitResults(g, k) ==
    { [isnone |-> FALSE, ind |-> i, pp |-> m,
       betas |-> [n \in 1..CountTrue(m, k) |-> c * n],
       betas_resc |-> [n \in 1..CountTrue(m, k) |-> s * n]] :
        i \in 0..(g - 1), m \in [1..k -> BOOLEAN], c \in CoefVals, s \in ScoreVals }

\* every list regress() may return: results and None, in any order
RunDataSet(g, k) ==
    UNION { [1..n -> FitResults(g, k) \cup {None}] : n \in 0..MaxLen }

(***************************************************************************)
(* BaseRegression.pileup_data                                              *)
(***************************************************************************)
\* faulty variant: arrays that do not start at zero (np.ones, np.empty)
Ones(g, k) == [i \in 1..g |-> [j \in 1..k |-> 1]]
\* np.zeros((G, K)) : base_regression.py:88-89
Zeros(g, k) == [i \in 1..g |-> [j \in 1..k |-> 0]]

\* faulty variant: the row is the position of the result in the list
RowOfPos(data, pos) == IF pos <= G THEN pos ELSE data.ind + 1
\* the row of the arrays a result is written to: xidx = data['ind']
RowOf(data, pos) == data.ind + 1

\* arr[xidx, yidx] = vals with yidx a boolean mask : base_regression.py:100-101
MaskAssign(arr, row, pp, vals) ==
    [arr EXCEPT ![row] =
        [j \in DOMAIN arr[row] |->
            IF pp[j] THEN vals[CountTrue(pp, j)] ELSE arr[row][j]]]

\* faulty variant: a None is taken for a null model and skipped
LoopBodySkipNone(acc, data, pos) ==
    IF data.isnone
    THEN acc
    ELSE [acc EXCEPT
            !.betas = MaskAssign(acc.betas, RowOf(data, pos), data.pp, data.betas),
            !.betas_rescale = MaskAssign(acc.betas_rescale, RowOf(data, pos),
                                         data.pp, data.betas_resc)]
\* one pass of the loop body, base_regression.py:92-101.  acc carries the
\* two arrays and whether RuntimeError was raised.
LoopBody(acc, data, pos) ==
    IF data.isnone
    THEN [acc EXCEPT !.raised = TRUE]
    ELSE [acc EXCEPT
            !.betas = MaskAssign(acc.betas, RowOf(data, pos), data.pp, data.betas),
            !.betas_rescale = MaskAssign(acc.betas_rescale, RowOf(data, pos),
                                         data.pp, data.betas_resc)]

\* for data in run_data: ... ; the raise leaves the loop at once
RECURSIVE Populate(_, _, _)
Populate(acc, rd, pos) ==
    IF pos > Len(rd) \/ acc.raised THEN acc
    ELSE Populate(LoopBody(acc, rd[pos], pos), rd, pos + 1)

\* faulty variant: index and columns given the wrong way round
DataFrameSwapped(arr, index, columns) ==
    [index |-> columns, columns |-> index, values |-> arr]
\* pd.DataFrame(arr, index=self.Y.gene_names, columns=self.X.gene_names)
DataFrame(arr, index, columns) ==
    [index |-> index, columns |-> columns, values |-> arr]

\* pileup_data(run_data): the pair of labelled matrices, or the raise
PileupData(g, k, gnames, tnames, rd) ==
    LET acc == Populate([raised |-> FALSE, betas |-> Zeros(g, k),
                         betas_rescale |-> Zeros(g, k)], rd, 1)
    IN  IF acc.raised
        THEN [status |-> "raised"]
        ELSE [status |-> "returned",
              betas |-> DataFrame(acc.betas, gnames, tnames),
              betas_rescale |-> DataFrame(acc.betas_rescale, gnames, tnames)]

(***************************************************************************)
(* The engine: construction, regress(), run()                              *)
(***************************************************************************)
\* BaseRegression.__init__ : K, tfs, G, genes from the data
EngineInit ==
    /\ G \in 1..MaxG
    /\ K \in 1..MaxK
    /\ genes = [i \in 1..G |-> GeneName(i)]
    /\ tfs = [j \in 1..K |-> TfName(j)]

\* the engine is not looked at
EngineIdle ==
    /\ G = 0
    /\ K = 0
    /\ genes = <<>>
    /\ tfs = <<>>
    /\ run_data = <<>>
    /\ out = [status |-> "pending"]
    /\ epc = "off"

\* no gene_preprocess call is under way
GeneIdle ==
    /\ remove_circularity = FALSE
    /\ gp_X = <<>>
    /\ gp_Y = <<>>
    /\ gp_prior = <<>>
    /\ gp_out = [status |-> "pending"]
    /\ gp_pc = "off"

\* no full_preprocess call is under way
FullIdle ==
    /\ fp_X = <<>>
    /\ fp_Y = <<>>
    /\ fp_X0 = <<>>
    /\ fp_Y0 = <<>>
    /\ ddof = 1
    /\ scale_y = FALSE
    /\ fp_out = [status |-> "pending"]
    /\ fp_pc = "off"

\* the prior matrix is not looked at
PriorIdle ==
    /\ prior_in = <<>>
    /\ prior_mat = [status |-> "pending"]
    /\ cpc = "off"

\* no make_data_noisy call is under way
SimIdle ==
    /\ expr = <<>>
    /\ is_integer = TRUE
    /\ expr0 = <<>>
    /\ spc = "off"

\* no predict_error_reduction call is under way
ErrIdle ==
    /\ er_x = <<>>
    /\ er_y = <<>>
    /\ er_betas = <<>>
    /\ error_reduction = [status |-> "pending"]
    /\ refits = <<>>
    /\ er_pc = "off"

\* no refit is under way
RefitIdle ==
    /\ x = <<>>
    /\ y = <<>>
    /\ sel = [isnone |-> TRUE]
    /\ best_betas = [status |-> "pending"]
    /\ fpc = "off"

\* a workflow on which run_regression is not called
WorkflowIdle ==
    /\ variant = "single"
    /\ num_bootstraps = 0
    /\ random_seed = 0
    /\ n_tasks = 1
    /\ null_at = <<-1, 0>>
    /\ rng = 0
    /\ bootstraps = <<>>
    /\ idx = 0
    /\ betas = <<>>
    /\ rescaled_betas = <<>>
    /\ bpc = "off"
    /\ ret = [status |-> "pending"]
    /\ log = <<>>
    /\ runs = <<>>

Init ==
    /\ EngineInit
    /\ run_data = <<>>
    /\ out = [status |-> "pending"]
    /\ epc = "new"
    /\ WorkflowIdle
    /\ RefitIdle
    /\ GeneIdle /\ FullIdle /\ PriorIdle /\ SimIdle /\ ErrIdle

\* regress() is abstract: any list of results and None
Regress ==
    /\ epc = "new"
    /\ run_data' \in RunDataSet(G, K)
    /\ epc' = "regressed"
    /\ UNCHANGED <<G, K, genes, tfs, out, wvars, xvars, fvars, bvars>>

\* run(): return self.pileup_data(self.regress())
Run ==
    /\ epc = "regressed"
    /\ out' = PileupData(G, K, genes, tfs, run_data)
    /\ epc' = "done"
    /\ UNCHANGED <<G, K, genes, tfs, run_data, wvars, xvars, fvars, bvars>>

Next == Regress \/ Run

Spec == Init /\ [][Next]_vars

(***************************************************************************)
(* The bootstrap loops: run_regression of _RegressionWorkflowMixin and of  *)
(* _MultitaskRegressionWorkflowMixin                                       *)
(***************************************************************************)
\* numpy's global random state is an integer here: np.random.seed(s) puts it
\* at SeedState(s), and each draw moves it on by one.  Seeded states are
\* RngStride apart, so the draws of the calls never reach the next seed.
RngStride == MaxRuns * MaxBoot + 1
SeedState(s) == s * RngStride
RngSpan == SeedState(MaxSeed + MaxBoot + 1)

\* the states the global generator may be in when a workflow is built: as
\* seeded with 0, or as left behind by unrelated code
RngInit == {SeedState(0), SeedState(MaxSeed + MaxBoot)}

\* self.get_bootstraps(): num_bootstraps resamples of the sample axis, drawn
\* from a generator private to the call and seeded with random_seed; sample i
\* is identified by the seed and its position
GetBootstraps(seed, n) == [i \in 1..n |-> <<seed, i - 1>>]

\* the value a fit reports: any function of the bootstrap sample, the global
\* random state at the start of run_bootstrap and the task factors through it
FitValue(i, r, task) == 1 + i + MaxBoot * (r + RngSpan * task)

\* regress() of the engine a run_bootstrap call builds: one result per gene
\* in gene order, gene gi selecting the first gi predictors; None for the fit
\* the strategy fails on
StrategyRegress(g, k, nul, i, r, task) ==
    [gi \in 1..g |->
        IF nul = <<i, gi>>
        THEN None
        ELSE LET m == [j \in 1..k |-> j <= gi]
             IN  [isnone |-> FALSE, ind |-> gi - 1, pp |-> m,
                  betas |-> [n \in 1..CountTrue(m, k) |-> FitValue(i, r, task)],
                  betas_resc |-> [n \in 1..CountTrue(m, k) |-> 0 - FitValue(i, r, task)]]]

\* faulty variant: every iteration reseeded with the base seed
SeedArgNoIdx(seed, i) == seed
\* np.random.seed(self.random_seed + idx) : the argument
SeedArg(seed, i) == seed + i

\* faulty variant: insert at the front
ListPrepend(l, item) == <<item>> \o l
\* betas.append(current_betas) : base_regression.py:144-145
ListAppend(l, item) == Append(l, item)

\* faulty variant: every task gets the first task's matrix
TaskAppendFirst(ls, current) ==
    [k \in DOMAIN ls |-> Append(ls[k], current[1])]
\* for k in range(self._n_tasks): betas[k].append(current_betas[k])
TaskAppend(ls, current) ==
    [k \in DOMAIN ls |-> Append(ls[k], current[k])]

\* a call of run_regression may start
CanStart == bpc = "idle" /\ Len(runs) < MaxRuns

\* betas = []; rescaled_betas = []; enumerate(self.get_bootstraps())
StartSingle ==
    /\ variant = "single"
    /\ CanStart
    /\ betas' = <<>>
    /\ rescaled_betas' = <<>>
    /\ bootstraps' = GetBootstraps(random_seed, num_bootstraps)
    /\ idx' = 0
    /\ bpc' = "loop"
    /\ ret' = [status |-> "pending"]
    /\ log' = <<>>
    /\ run_data' = <<>>
    /\ out' = [status |-> "pending"]
    /\ UNCHANGED <<G, K, genes, tfs, epc, wvars, xvars, fvars, rng, runs>>

\* np.random.seed(self.random_seed + idx)
Reseed ==
    /\ variant = "single"
    /\ bpc = "loop"
    /\ idx < Len(bootstraps)
    /\ rng' = SeedState(SeedArg(random_seed, idx))
    /\ log' = Append(log, <<"seed", SeedArg(random_seed, idx)>>)
    /\ bpc' = "seeded"
    /\ UNCHANGED <<evars, wvars, xvars, fvars, bootstraps, idx, betas, rescaled_betas, ret, runs>>

\* current_betas, current_rescaled_betas = self.run_bootstrap(bootstrap) and
\* the two appends; an exception of run_bootstrap leaves run_regression
RunBootstrap ==
    /\ variant = "single"
    /\ bpc = "seeded"
    /\ LET b == bootstraps[idx + 1]
           rd == StrategyRegress(G, K, null_at, b[2], rng, 0)
           res == PileupData(G, K, genes, tfs, rd)
       IN  /\ run_data' = rd
           /\ out' = res
           /\ log' = Append(log, <<"run_bootstrap", idx, rng, res>>)
           /\ rng' = rng + 1
           /\ IF res.status = "raised"
              THEN /\ ret' = [status |-> "raised"]
                   /\ runs' = Append(runs, [status |-> "raised"])
                   /\ bpc' = "idle"
                   /\ UNCHANGED <<idx, betas, rescaled_betas>>
              ELSE /\ betas' = ListAppend(betas, res.betas)
                   /\ rescaled_betas' = ListAppend(rescaled_betas, res.betas_rescale)
                   /\ idx' = idx + 1
                   /\ bpc' = "loop"
                   /\ UNCHANGED <<ret, runs>>
    /\ UNCHANGED <<G, K, genes, tfs, epc, wvars, xvars, fvars, bootstraps>>

\* return betas, rescaled_betas
ReturnSingle ==
    /\ variant = "single"
    /\ bpc = "loop"
    /\ idx = Len(bootstraps)
    /\ ret' = [status |-> "returned", betas |-> betas, rescaled_betas |-> rescaled_betas]
    /\ runs' = Append(runs, ret')
    /\ bpc' = "idle"
    /\ UNCHANGED <<evars, wvars, xvars, fvars, rng, bootstraps, idx, betas, rescaled_betas, log>>

\* betas = [[] for _ in range(self._n_tasks)]; likewise rescaled_betas
StartMulti ==
    /\ variant = "multi"
    /\ CanStart
    /\ betas' = [k \in 1..n_tasks |-> <<>>]
    /\ rescaled_betas' = [k \in 1..n_tasks |-> <<>>]
    /\ idx' = 0
    /\ bpc' = "loop"
    /\ ret' = [status |-> "pending"]
    /\ log' = <<>>
    /\ run_data' = <<>>
    /\ out' = [status |-> "pending"]
    /\ UNCHANGED <<G, K, genes, tfs, epc, wvars, xvars, fvars, rng, bootstraps, runs>>

\* current_betas, current_rescaled_betas = self.run_bootstrap(idx) and the
\* per-task appends: base_regression.py:164-170
MultiRunBootstrap ==
    /\ variant = "multi"
    /\ bpc = "loop"
    /\ idx < num_bootstraps
    /\ LET rd(k) == StrategyRegress(G, K, null_at, idx, rng, k)
           res == [k \in 1..n_tasks |-> PileupData(G, K, genes, tfs, rd(k))]
       IN  /\ run_data' = rd(1)
           /\ out' = res[1]
           /\ log' = Append(log, <<"run_bootstrap", idx, rng, res>>)
           /\ rng' = rng + 1
           /\ IF \E k \in 1..n_tasks : res[k].status = "raised"
              THEN /\ ret' = [status |-> "raised"]
                   /\ runs' = Append(runs, [status |-> "raised"])
                   /\ bpc' = "idle"
                   /\ UNCHANGED <<idx, betas, rescaled_betas>>
              ELSE /\ betas' = TaskAppend(betas, [k \in 1..n_tasks |-> res[k].betas])
                   /\ rescaled_betas' =
                        TaskAppend(rescaled_betas,
                                   [k \in 1..n_tasks |-> res[k].betas_rescale])
                   /\ idx' = idx + 1
                   /\ UNCHANGED <<bpc, ret, runs>>
    /\ UNCHANGED <<G, K, genes, tfs, epc, wvars, xvars, fvars, bootstraps>>

\* return betas, rescaled_betas
ReturnMulti ==
    /\ variant = "multi"
    /\ bpc = "loop"
    /\ idx = num_bootstraps
    /\ ret' = [status |-> "returned", betas |-> betas, rescaled_betas |-> rescaled_betas]
    /\ runs' = Append(runs, ret')
    /\ bpc' = "idle"
    /\ UNCHANGED <<evars, wvars, xvars, fvars, rng, bootstraps, idx, betas, rescaled_betas, log>>

\* a workflow of either kind, its engine, and the generator as it finds it
InitBoot ==
    /\ EngineInit
    /\ run_data = <<>>
    /\ out = [status |-> "pending"]
    /\ epc = "workflow"
    /\ variant \in {"single", "multi"}
    /\ num_bootstraps \in 0..MaxBoot
    /\ random_seed \in 0..MaxSeed
    /\ n_tasks \in (IF variant = "single" THEN {1} ELSE 1..MaxTasks)
    /\ null_at \in {<<-1, 0>>} \cup ((0..(num_bootstraps - 1)) \X (1..G))
    /\ rng \in RngInit
    /\ bootstraps = <<>>
    /\ idx = 0
    /\ betas = <<>>
    /\ rescaled_betas = <<>>
    /\ bpc = "idle"
    /\ ret = [status |-> "pending"]
    /\ log = <<>>
    /\ runs = <<>>
    /\ RefitIdle
    /\ GeneIdle /\ FullIdle /\ PriorIdle /\ SimIdle /\ ErrIdle

NextBoot ==
    \/ StartSingle
    \/ Reseed
    \/ RunBootstrap
    \/ ReturnSingle
    \/ StartMulti
    \/ MultiRunBootstrap
    \/ ReturnMulti

SpecBoot == InitBoot /\ [][NextBoot]_vars

(***************************************************************************)
(* recalculate_betas_from_selected: exact arithmetic on integer data.      *)
(* A float is a reduced fraction <<numerator, denominator>>.               *)
(***************************************************************************)
Abs(a) == IF a < 0 THEN 0 - a ELSE a

RECURSIVE Gcd(_, _)
Gcd(a, b) == IF b = 0 THEN a ELSE Gcd(b, a % b)

\* the fraction n / d, d # 0, reduced and with a positive denominator
Frac(n, d) ==
    LET g == Gcd(Abs(n), Abs(d))
        sgn == IF d < 0 THEN 0 - 1 ELSE 1
    IN  <<(sgn * n) \div g, (sgn * d) \div g>>

FZero == <<0, 1>>

\* the elements of a set of integers in increasing order; np.where(arr)[0]
RECURSIVE SortedSeq(_)
SortedSeq(S) ==
    IF S = {} THEN <<>>
    ELSE LET m == CHOOSE a \in S : \A b \in S : a <= b
         IN  <<m>> \o SortedSeq(S \ {m})

\* bool_to_index(arr): the indexes of the True elements
BoolToIndex(arr) == SortedSeq({j \in DOMAIN arr : arr[j]})

RECURSIVE SumTo(_, _)
SumTo(f, n) == IF n = 0 THEN 0 ELSE SumTo(f, n - 1) + f[n]

\* np.dot(x.T, x) for x[:, cols]
XtX(xm, cols) ==
    [a \in 1..Len(cols) |-> [b \in 1..Len(cols) |->
        SumTo([n \in 1..Len(xm) |-> xm[n][cols[a]] * xm[n][cols[b]]], Len(xm))]]

\* np.dot(x.T, y) for x[:, cols]
XtY(xm, cols, yv) ==
    [a \in 1..Len(cols) |->
        SumTo([n \in 1..Len(xm) |-> xm[n][cols[a]] * yv[n]], Len(xm))]

\* matrix A restricted to the rows rs and columns cs (index sequences)
SubMatrix(A, rs, cs) == [a \in 1..Len(rs) |-> [b \in 1..Len(cs) |-> A[rs[a]][cs[b]]]]

\* determinant, by expansion along the first row
RECURSIVE Det(_)
Det(A) ==
    IF Len(A) = 0 THEN 1
    ELSE LET m == Len(A)
             minor(j) == SubMatrix(A, [a \in 1..(m - 1) |-> a + 1],
                                   [b \in 1..(m - 1) |-> IF b < j THEN b ELSE b + 1])
             term(j) == (IF j % 2 = 1 THEN 1 ELSE 0 - 1) * A[1][j] * Det(minor(j))
         IN  SumTo([j \in 1..m |-> term(j)], m)

\* np.linalg.matrix_rank of a square matrix: the size of the largest square
\* submatrix with a non-zero determinant
MatrixRank(A) ==
    LET m == Len(A)
        full(r) == \E R \in SUBSET (1..m), C \in SUBSET (1..m) :
                      /\ Cardinality(R) = r
                      /\ Cardinality(C) = r
                      /\ Det(SubMatrix(A, SortedSeq(R), SortedSeq(C))) # 0
    IN  CHOOSE r \in 0..m : full(r) /\ \A q \in (r + 1)..m : ~full(q)

\* faulty variant: no rank test before the solve
FullRankAlways(xtx) == TRUE
\* np.linalg.matrix_rank(xtx) == xtx.shape[1] : base_regression.py:286
FullRank(xtx) == MatrixRank(xtx) = Len(xtx)

\* np.linalg.solve(A, b): LinAlgError on a singular A, else the solution
\* (Cramer's rule)
Solve(A, b) ==
    IF Det(A) = 0
    THEN [status |-> "raised"]
    ELSE [status |-> "returned",
          value |-> [i \in 1..Len(A) |->
              Frac(Det([r \in 1..Len(A) |-> [c \in 1..Len(A) |->
                        IF c = i THEN b[r] ELSE A[r][c]]]), Det(A))]]

\* the outcomes of recalculate_betas_from_selected(x, y, idx) for a
\* non-empty selection; `arg` is None or a boolean mask over the columns
RecalculateBetas(xm, yv, arg) ==
    LET k == Len(xm[1])
        mask == IF arg.isnone THEN [j \in 1..k |-> TRUE] ELSE arg.mask
        cols == BoolToIndex(mask)
        xtx == XtX(xm, cols)
        hat == IF FullRank(xtx)
               THEN Solve(xtx, XtY(xm, cols, yv))
               ELSE [status |-> "returned", value |-> [i \in 1..Len(cols) |-> FZero]]
    IN  IF hat.status = "raised"
        THEN [status |-> "raised"]
        ELSE [status |-> "returned",
              value |-> [j \in 1..k |->
                  IF mask[j] THEN hat.value[CountTrue(mask, j)] ELSE FZero]]

\* with no predictor selected xtx is a 0 x 0 array: np.linalg.matrix_rank
\* takes the maximum of an empty array of singular values, which numpy
\* refuses with an exception; a build whose matrix_rank accepts the empty
\* array gets rank 0 == 0 columns and the all-zero vector
EmptySelectionOutcomes(xm) ==
    { [status |-> "raised"],
      [status |-> "returned", value |-> [j \in 1..Len(xm[1]) |-> FZero]] }

\* the masks a caller may pass: None, or a boolean array over the columns
SelArgs(k) == {[isnone |-> TRUE]} \cup
              { [isnone |-> FALSE, mask |-> m] : m \in [1..k -> BOOLEAN] }

\* the columns `arg` selects
Selected(arg, k) ==
    IF arg.isnone THEN 1..k ELSE {j \in 1..k : arg.mask[j]}

InitBetas ==
    /\ EngineInit
    /\ G = 1 /\ K = 1
    /\ run_data = <<>>
    /\ out = [status |-> "pending"]
    /\ epc = "off"
    /\ WorkflowIdle
    /\ \E n \in 1..MaxN, k \in 1..MaxP :
        /\ x \in [1..n -> [1..k -> XVals]]
        /\ y \in [1..n -> YVals]
        /\ sel \in SelArgs(k)
    /\ best_betas = [status |-> "pending"]
    /\ fpc = "call"
    /\ GeneIdle /\ FullIdle /\ PriorIdle /\ SimIdle /\ ErrIdle

\* best_betas = recalculate_betas_from_selected(x, y, idx)
Recalculate ==
    /\ fpc = "call"
    /\ Selected(sel, Len(x[1])) # {}
    /\ best_betas' = RecalculateBetas(x, y, sel)
    /\ fpc' = "done"
    /\ UNCHANGED <<evars, wvars, xvars, bvars, x, y, sel>>

\* the same call with an all-False idx
RecalculateEmpty ==
    /\ fpc = "call"
    /\ Selected(sel, Len(x[1])) = {}
    /\ best_betas' \in EmptySelectionOutcomes(x)
    /\ fpc' = "done"
    /\ UNCHANGED <<evars, wvars, xvars, bvars, x, y, sel>>

NextBetas == Recalculate \/ RecalculateEmpty

SpecBetas == InitBetas /\ [][NextBetas]_vars

(***************************************************************************)
(* PreprocessData.gene_preprocess and remove_gene_from_activity.           *)
(* A standardized value is <<sign, p, q>>: the real number of that sign    *)
(* whose square is the reduced fraction p / q.                             *)
(***************************************************************************)
Sgn(a) == IF a < 0 THEN 0 - 1 ELSE IF a = 0 THEN 0 ELSE 1

\* the real number of sign sg whose square is p / q
Root(sg, p, q) == LET f == Frac(p, q) IN <<sg, f[1], f[2]>>

RZero == <<0, 0, 1>>

\* z-scores of an integer vector with the given delta degrees of freedom:
\* (v - mean) / sd, where sd^2 = sum((v - mean)^2) / (len - dd); a vector
\* without variance is scaled to zeros.  With d[i] = len * (v[i] - mean) the
\* square of the z-score is d[i]^2 * (len - dd) / sum(d^2).
ZScore(vec, dd) ==
    LET len == Len(vec)
        d == [i \in 1..len |-> len * vec[i] - SumTo(vec, len)]
        ssq == SumTo([i \in 1..len |-> d[i] * d[i]], len)
    IN  [i \in 1..len |->
            IF ssq = 0 THEN RZero
            ELSE Root(Sgn(d[i]), d[i] * d[i] * (len - dd), ssq)]

\* number of columns of a matrix stored as a sequence of rows
NCols(m) == IF Len(m) = 0 THEN 0 ELSE Len(m[1])

\* utils.scale_array on a dense matrix: every column (predictor) is
\* z-scored across the rows (samples)
ScaleMatrix(m, dd) ==
    LET cols == [j \in 1..NCols(m) |-> ZScore([i \in 1..Len(m) |-> m[i][j]], dd)]
    IN  [i \in 1..Len(m) |-> [j \in 1..NCols(m) |-> cols[j][i]]]

\* scale_Y(Y): scale_vector(Y), whose ddof is left at its default
ScaleY(yv) == ZScore(yv, 1)

\* remove_gene_from_activity: activity - expression (x) prior, after the
\* two size checks
RemoveGeneFromActivity(activity_data, gene_expression_data, prior_data) ==
    IF Len(gene_expression_data) # Len(activity_data)
    THEN [status |-> "raised", error |-> "ValueError"]
    ELSE IF Len(prior_data) # NCols(activity_data)
    THEN [status |-> "raised", error |-> "ValueError"]
    ELSE [status |-> "returned",
          value |-> [i \in 1..Len(activity_data) |-> [j \in 1..NCols(activity_data) |->
              activity_data[i][j] - gene_expression_data[i] * prior_data[j]]]]

\* gene_preprocess(X, Y, prior_data, gene) under the class's flag
GenePreprocess(flag, xm, yv, prior_row) ==
    IF flag
    THEN LET fixed == RemoveGeneFromActivity(xm, yv, prior_row)
         IN  IF fixed.status = "raised" THEN fixed
             ELSE [status |-> "returned",
                   X |-> ScaleMatrix(fixed.value, 1), Y |-> ScaleY(yv)]
    ELSE [status |-> "returned", X |-> ScaleMatrix(xm, 1), Y |-> ScaleY(yv)]

\* the entries of a prior row
PriorVals == {0, 1}

InitGene ==
    /\ EngineIdle
    /\ WorkflowIdle
    /\ RefitIdle
    /\ FullIdle /\ PriorIdle /\ SimIdle /\ ErrIdle
    /\ remove_circularity = FALSE
    /\ \E nn \in 1..MaxN, kk \in 1..MaxP : gp_X \in [1..nn -> [1..kk -> XVals]]
    /\ \E nn \in 1..MaxN : gp_Y \in [1..nn -> YVals]
    /\ \E kk \in 1..MaxP : gp_prior \in [1..kk -> PriorVals]
    /\ gp_out = [status |-> "pending"]
    /\ gp_pc = "call"

\* PreprocessData.set_preprocessing(remove_circularity)
SetPreprocessing ==
    /\ gp_pc = "call"
    /\ \E flag \in BOOLEAN : remove_circularity' = flag
    /\ UNCHANGED <<evars, wvars, bvars, fvars, pvars, cvars, svars, rvars,
                   gp_X, gp_Y, gp_prior, gp_out, gp_pc>>

\* one call of PreprocessData.gene_preprocess
CallGenePreprocess ==
    /\ gp_pc = "call"
    /\ gp_out' = GenePreprocess(remove_circularity, gp_X, gp_Y, gp_prior)
    /\ gp_pc' = "done"
    /\ UNCHANGED <<evars, wvars, bvars, fvars, pvars, cvars, svars, rvars,
                   remove_circularity, gp_X, gp_Y, gp_prior>>

NextGene == SetPreprocessing \/ CallGenePreprocess

SpecGene == InitGene /\ [][NextGene]_vars

(***************************************************************************)
(* PreprocessData.full_preprocess and PreprocessData.scale_array.          *)
(* A caller's X or Y is [islist, items]: a single matrix is one item.  An  *)
(* item is [kind, data], data being a matrix of values <<sign, p, q>>.     *)
(***************************************************************************)
\* the integer v as a value <<sign, p, q>>
IntR(v) == <<Sgn(v), v * v, 1>>

\* the integer that a value <<sign, p, 1>> stands for
RInt(r) == r[1] * (CHOOSE a \in 0..r[2] : a * a = r[2])

RMatrix(m) == [i \in 1..Len(m) |-> [j \in 1..NCols(m) |-> IntR(m[i][j])]]

IntMatrix(m) == [i \in 1..Len(m) |-> [j \in 1..NCols(m) |-> RInt(m[i][j])]]

\* Python's truth value of a number passed where a bool is expected
Truthy(v) == v # 0

\* PreprocessData.scale_array(X, inplace=False, ddof=1): the value returned
\* and the contents of the argument's buffer afterwards
ScaleArray(item, inplace, dd) ==
    LET scaled == ScaleMatrix(IntMatrix(item.data), dd)
    IN  IF item.kind = "InferelatorData"
        THEN [value |-> scaled, after |-> item.data]
        ELSE [value |-> scaled, after |-> IF inplace THEN scaled ELSE item.data]

\* scale_array(xk, ddof) as the list branches call it: the second positional
\* parameter is inplace, and ddof is left at its default
ScaleListItem(item, dd) == ScaleArray(item, Truthy(dd), 1)

\* scale_array(X, ddof=ddof) as the single-matrix branches call it
ScaleSingle(item, dd) == ScaleArray(item, FALSE, dd)

\* one of X, Y through its branch of full_preprocess
ScaleAll(arg, dd) ==
    [i \in 1..Len(arg.items) |->
        IF arg.islist THEN ScaleListItem(arg.items[i], dd)
        ELSE ScaleSingle(arg.items[i], dd)]

\* full_preprocess(X, Y, ddof, scale_y): the pair returned, and the
\* contents of the caller's X and Y afterwards
FullPreprocess(xa, ya, dd, sy) ==
    LET ys == ScaleAll(ya, dd)
        xs == ScaleAll(xa, dd)
    IN  [X |-> [i \in 1..Len(xs) |-> xs[i].value],
         Y |-> IF sy THEN [i \in 1..Len(ys) |-> ys[i].value]
               ELSE [i \in 1..Len(ya.items) |-> ya.items[i].data],
         Xafter |-> [xa EXCEPT !.items =
                        [i \in 1..Len(xs) |-> [@[i] EXCEPT !.data = xs[i].after]]],
         Yafter |-> IF sy
                    THEN [ya EXCEPT !.items =
                        [i \in 1..Len(ys) |-> [@[i] EXCEPT !.data = ys[i].after]]]
                    ELSE ya]

DdofVals == {0, 1}
Kinds == {"ndarray", "InferelatorData"}

\* the data of one task: a design matrix [N x K] and a response matrix
\* [N x 1] over the same N samples
TaskData ==
    UNION { [1..nn -> [1..kk -> XVals]] \X [1..nn -> [1..1 -> XVals]] :
            nn \in 1..MaxN, kk \in 1..MaxP }

\* a caller's argument: one matrix, or a list of one matrix per task
Arg(kind, islist, ms) ==
    [islist |-> islist,
     items |-> [i \in 1..Len(ms) |-> [kind |-> kind, data |-> RMatrix(ms[i])]]]

InitFull ==
    /\ EngineIdle
    /\ WorkflowIdle
    /\ RefitIdle
    /\ GeneIdle /\ PriorIdle /\ SimIdle /\ ErrIdle
    /\ \E kind \in Kinds, islist \in BOOLEAN :
       \E len \in (IF islist THEN 1..MaxTasks ELSE {1}) :
       \E f \in [1..len -> TaskData] :
          /\ fp_X = Arg(kind, islist, [i \in 1..len |-> f[i][1]])
          /\ fp_Y = Arg(kind, islist, [i \in 1..len |-> f[i][2]])
    /\ fp_X0 = fp_X
    /\ fp_Y0 = fp_Y
    /\ ddof \in DdofVals
    /\ scale_y \in BOOLEAN
    /\ fp_out = [status |-> "pending"]
    /\ fp_pc = "call"

\* one call of PreprocessData.full_preprocess
CallFullPreprocess ==
    /\ fp_pc = "call"
    /\ LET r == FullPreprocess(fp_X, fp_Y, ddof, scale_y)
       IN  /\ fp_out' = [status |-> "returned", X |-> r.X, Y |-> r.Y]
           /\ fp_X' = r.Xafter
           /\ fp_Y' = r.Yafter
    /\ fp_pc' = "done"
    /\ UNCHANGED <<evars, wvars, bvars, fvars, gvars, cvars, svars, rvars,
                   fp_X0, fp_Y0, ddof, scale_y>>

NextFull == CallFullPreprocess

SpecFull == InitFull /\ [][NextFull]_vars

(***************************************************************************)
(* BaseRegression.__init__: self.prior_mat = prior_mat.loc[genes, tfs].    *)
(* A frame is [index, columns, values]; a cell of a frame that .loc made   *)
(* is <<v>> for the number v and <<>> for NaN.                             *)
(***************************************************************************)
Cell(v) == <<v>>
NaN == <<>>

\* the sequences without repetition over the set S
Injective(S) ==
    { f \in UNION { [1..len -> S] : len \in 0..Cardinality(S) } :
        \A a, b \in 1..Len(f) : f[a] = f[b] => a = b }

\* the set of the elements of a sequence
Range(f) == { f[i] : i \in 1..Len(f) }

\* the prior matrices a caller may hand over: any rows and columns out of
\* the ids the data may have, in any order
PriorFrames ==
    UNION { { [index |-> ix, columns |-> cl, values |-> v] :
              v \in [1..Len(ix) -> [1..Len(cl) -> PriorVals]] } :
            ix \in Injective({ GeneName(i) : i \in 1..MaxG }),
            cl \in Injective({ TfName(j) : j \in 1..MaxK }) }

\* position of a label on an axis
PosOf(axis, label) == CHOOSE p \in 1..Len(axis) : axis[p] = label

\* frame.loc[rows, cols] with every label present: the labelled cells in
\* the order asked for
LocFound(frame, rows, cols) ==
    [status |-> "returned", index |-> rows, columns |-> cols,
     values |-> [i \in 1..Len(rows) |-> [j \in 1..Len(cols) |->
         Cell(frame.values[PosOf(frame.index, rows[i])][PosOf(frame.columns, cols[j])])]]]

\* frame.loc[rows, cols] of a pandas that still reindexes: NaN where a
\* label is missing
LocNaN(frame, rows, cols) ==
    [status |-> "returned", index |-> rows, columns |-> cols,
     values |-> [i \in 1..Len(rows) |-> [j \in 1..Len(cols) |->
         IF rows[i] \in Range(frame.index) /\ cols[j] \in Range(frame.columns)
         THEN Cell(frame.values[PosOf(frame.index, rows[i])][PosOf(frame.columns, cols[j])])
         ELSE NaN]]]

\* frame.loc[rows, cols] with lists of labels.  A missing label is a
\* KeyError; a pandas older than 1.0 raises it only when no label of the
\* axis is found, and otherwise warns and fills with NaN.
Loc(frame, rows, cols) ==
    IF Range(rows) \subseteq Range(frame.index) /\ Range(cols) \subseteq Range(frame.columns)
    THEN { LocFound(frame, rows, cols) }
    ELSE { [status |-> "raised", error |-> "KeyError"] }
         \cup (IF /\ Range(rows) \cap Range(frame.index) # {}
                  /\ Range(cols) \cap Range(frame.columns) # {}
               THEN { LocNaN(frame, rows, cols) } ELSE {})

InitPrior ==
    /\ G = 0
    /\ K = 0
    /\ genes = <<>>
    /\ tfs = <<>>
    /\ run_data = <<>>
    /\ out = [status |-> "pending"]
    /\ epc = "off"
    /\ WorkflowIdle
    /\ RefitIdle
    /\ GeneIdle /\ FullIdle /\ SimIdle /\ ErrIdle
    /\ prior_in \in PriorFrames
    /\ prior_mat = [status |-> "pending"]
    /\ cpc = "call"

\* BaseRegression.__init__(X, Y, prior_mat) for data of k predictors and
\* g responses
Construct ==
    /\ cpc = "call"
    /\ \E g \in 1..MaxG, k \in 1..MaxK :
          /\ K' = k
          /\ tfs' = [j \in 1..k |-> TfName(j)]
          /\ G' = g
          /\ genes' = [i \in 1..g |-> GeneName(i)]
          /\ prior_mat' \in Loc(prior_in, genes', tfs')
    /\ cpc' = IF prior_mat'.status = "raised" THEN "raised" ELSE "done"
    /\ UNCHANGED <<run_data, out, epc, wvars, bvars, fvars, gvars, pvars,
                   svars, rvars, prior_in>>

NextPrior == Construct

SpecPrior == InitPrior /\ [][NextPrior]_vars

(***************************************************************************)
(* make_data_noisy, _sim_ints and _sim_float.  A matrix is a sequence of   *)
(* rows (samples), a row a sequence of one entry per gene.                 *)
(***************************************************************************)
\* data.sample_counts: the total of every row
SampleCountsOf(m) == [i \in 1..Len(m) |-> SumTo(m[i], Len(m[i]))]

\* the genes p_vec gives a probability above zero: those counted in at
\* least one sample
Support(m) == { j \in 1..NCols(m) : \E i \in 1..Len(m) : m[i][j] > 0 }

\* all sequences made of one element of each set of a sequence of sets
RECURSIVE SeqProduct(_)
SeqProduct(sets) ==
    IF Len(sets) = 0 THEN { <<>> }
    ELSE { <<h>> \o t : h \in sets[1], t \in SeqProduct(Tail(sets)) }

\* the concatenation of a sequence of sequences
RECURSIVE ConcatAll(_)
ConcatAll(seqs) ==
    IF Len(seqs) = 0 THEN <<>> ELSE Head(seqs) \o ConcatAll(Tail(seqs))

\* rng.choice(col_ids, size=cnt, p=prob_dist), as the number of times each
\* gene was drawn: any split of cnt over the genes of the support
RowDraws(cnt, support, ncols) ==
    { c \in [1..ncols -> 0..cnt] :
        /\ SumTo(c, ncols) = cnt
        /\ \A j \in 1..ncols : j \notin support => c[j] = 0 }

\* np.bincount(draws): counts up to the highest gene drawn, no further
Bincount(c) ==
    LET drawn == { j \in 1..Len(c) : c[j] > 0 }
        top == IF drawn = {} THEN 0 ELSE CHOOSE j \in drawn : \A h \in drawn : h <= j
    IN  [j \in 1..top |-> c[j]]

\* row_data[i, :] = arr: arr fits, is broadcast from one value, or fails
AssignRow(ncols, arr) ==
    IF Len(arr) = ncols THEN [status |-> "ok", row |-> arr]
    ELSE IF Len(arr) = 1 THEN [status |-> "ok", row |-> [j \in 1..ncols |-> arr[1]]]
    ELSE [status |-> "raised", error |-> "ValueError"]

\* the index chunks of _row_gen and _col_gen: consecutive runs of at most
\* chunksize indexes
ChunkGen(len, chunksize) ==
    [c \in 1..((len + chunksize - 1) \div chunksize) |->
        [t \in 1..((IF len < c * chunksize THEN len ELSE c * chunksize)
                   - (c - 1) * chunksize) |-> (c - 1) * chunksize + t]]

RowGen(len) == ChunkGen(len, RowChunk)

ColGen(len) == ChunkGen(len, ColChunk)

\* _sim_rows(n_vec, seed) on the rows of one chunk
SimRows(rows, draws, ncols) ==
    LET assigned == [t \in 1..Len(rows) |-> AssignRow(ncols, Bincount(draws[rows[t]]))]
    IN  IF \E t \in 1..Len(rows) : assigned[t].status = "raised"
        THEN [status |-> "raised", error |-> "ValueError"]
        ELSE [status |-> "returned", value |-> [t \in 1..Len(rows) |-> assigned[t].row]]

\* MPControl.map(fn, *iterables): the results in the order of the chunks;
\* an error of one call is the error of the map
MPMap(results) ==
    IF \E c \in 1..Len(results) : results[c].status = "raised"
    THEN [status |-> "raised", error |-> "ValueError"]
    ELSE [status |-> "returned", value |-> [c \in 1..Len(results) |-> results[c].value]]

\* np.vstack(blocks): the blocks one below the other; all must have the
\* same number of columns
VStack(blocks) ==
    IF \E c \in 1..Len(blocks) : NCols(blocks[c]) # NCols(blocks[1])
    THEN [status |-> "raised", error |-> "ValueError"]
    ELSE [status |-> "returned", value |-> ConcatAll(blocks)]

\* np.hstack(blocks): the blocks side by side; all must have the same
\* number of rows
HStack(blocks) ==
    IF \E c \in 1..Len(blocks) : Len(blocks[c]) # Len(blocks[1])
    THEN [status |-> "raised", error |-> "ValueError"]
    ELSE [status |-> "returned",
          value |-> [i \in 1..Len(blocks[1]) |->
              ConcatAll([c \in 1..Len(blocks) |-> blocks[c][i]])]]

\* _sim_ints(prob_dist, n_per_row) for given draws: row chunks through
\* _sim_rows, then np.hstack
SimInts(n_per_row, draws, ncols) ==
    LET chunks == RowGen(Len(n_per_row))
        sim_data == MPMap([c \in 1..Len(chunks) |-> SimRows(chunks[c], draws, ncols)])
    IN  IF sim_data.status = "raised" THEN sim_data ELSE HStack(sim_data.value)

\* _sim_cols(cents, sds, seed) on the genes of one chunk: nrows draws per
\* gene; a draw from the distribution of gene j is written j
SimCols(cols, nrows) ==
    [status |-> "returned", value |-> [i \in 1..nrows |-> [t \in 1..Len(cols) |-> cols[t]]]]

\* _sim_float(gene_centers, gene_sds, nrows): column chunks through
\* _sim_cols, then np.vstack
SimFloat(ncols, nrows) ==
    LET chunks == ColGen(ncols)
        sim_data == MPMap([c \in 1..Len(chunks) |-> SimCols(chunks[c], nrows)])
    IN  VStack(sim_data.value)

\* whether p_vec sums to 1: a sample without counts makes it NaN
ProbSumsToOne(m) == \A i \in 1..Len(m) : SampleCountsOf(m)[i] > 0

\* the draws _sim_ints may make for the data m, one per sample
AllDraws(m) ==
    SeqProduct([i \in 1..Len(m) |-> RowDraws(SampleCountsOf(m)[i], Support(m), NCols(m))])

\* entries of a count matrix
CountVals == {0, 1}

\* the matrices make_data_noisy is given
Expressions ==
    UNION { [1..sg[1] -> [1..sg[2] -> CountVals]] :
            sg \in { t \in (1..MaxSamples) \X (1..MaxGenes) : t[1] * t[2] <= MaxCells } }

InitSim ==
    /\ EngineIdle
    /\ WorkflowIdle
    /\ RefitIdle
    /\ GeneIdle /\ FullIdle /\ PriorIdle /\ ErrIdle
    /\ expr \in Expressions
    /\ expr0 = expr
    /\ is_integer \in BOOLEAN
    /\ spc = "call"

\* make_data_noisy(data) on integer data
MakeNoisyInts ==
    /\ spc = "call"
    /\ is_integer
    /\ IF ~ProbSumsToOne(expr)
       THEN spc' = "raised" /\ expr' = expr
       ELSE \E draws \in AllDraws(expr) :
               LET r == SimInts(SampleCountsOf(expr), draws, NCols(expr))
               IN  IF r.status = "raised"
                   THEN spc' = "raised" /\ expr' = expr
                   ELSE spc' = "done" /\ expr' = r.value
    /\ UNCHANGED <<evars, wvars, bvars, fvars, gvars, pvars, cvars, rvars,
                   is_integer, expr0>>

\* make_data_noisy(data) on float data
MakeNoisyFloat ==
    /\ spc = "call"
    /\ ~is_integer
    /\ LET r == SimFloat(NCols(expr), Len(expr))
       IN  IF r.status = "raised"
           THEN spc' = "raised" /\ expr' = expr
           ELSE spc' = "done" /\ expr' = r.value
    /\ UNCHANGED <<evars, wvars, bvars, fvars, gvars, pvars, cvars, rvars,
                   is_integer, expr0>>

NextSim == MakeNoisyInts \/ MakeNoisyFloat

SpecSim == InitSim /\ [][NextSim]_vars

(***************************************************************************)
(* predict_error_reduction and sigma_squared, in exact arithmetic.  A      *)
(* float is a reduced fraction <<numerator, denominator>>; <<-1, 0>> is    *)
(* -inf and <<0, 0>> is nan.                                               *)
(***************************************************************************)
FOne == <<1, 1>>
FNegInf == <<0 - 1, 0>>
FNaN == <<0, 0>>

FInt(a) == <<a, 1>>
FAdd(a, b) == Frac(a[1] * b[2] + b[1] * a[2], a[2] * b[2])
FSub(a, b) == Frac(a[1] * b[2] - b[1] * a[2], a[2] * b[2])
FMul(a, b) == Frac(a[1] * b[1], a[2] * b[2])
\* a / b for b # 0
FDiv(a, b) == Frac(a[1] * b[2], a[2] * b[1])

\* the sum of the first len fractions of f
RECURSIVE FSum(_, _)
FSum(f, len) == IF len = 0 THEN FZero ELSE FAdd(FSum(f, len - 1), f[len])

\* np.var(v, ddof=1) of a vector of two or more fractions
Var1(v) ==
    LET len == Len(v)
        mean == FDiv(FSum(v, len), FInt(len))
        sq == [i \in 1..len |-> FMul(FSub(v[i], mean), FSub(v[i], mean))]
    IN  FDiv(FSum(sq, len), FInt(len - 1))

\* sigma_squared(x[:, cols], y, betas): the variance of the residuals
SigmaSquared(xm, cols, yv, bs) ==
    Var1([i \in 1..Len(xm) |->
        FSub(FInt(yv[i]),
             FSum([t \in 1..Len(cols) |-> FMul(FInt(xm[i][cols[t]]), bs[t])], Len(cols)))])

\* index_of_nonzeros(arr): np.where(arr != 0)[0]
IndexOfNonzeros(arr) == SortedSeq({ j \in 1..Len(arr) : arr[j] # 0 })

\* 1 - (a / b) as the floats give it: a variance is never negative
OneMinusRatio(a, b) ==
    IF b # FZero THEN FSub(FOne, FDiv(a, b))
    ELSE IF a = FZero THEN FNaN ELSE FNegInf

\* copy.copy(pp_idx) after pop(pp_i)
LeaveOut(pp_idx, pp_i) ==
    [t \in 1..(Len(pp_idx) - 1) |-> IF t < pp_i THEN pp_idx[t] ELSE pp_idx[t + 1]]

\* the index a score is written at, were it the position in pp_idx
ScoreIndexPosition(pp_idx, pp_i) == pp_i

\* the index a score is written at: lost = leave_out.pop(pp_i)
ScoreIndex(pp_idx, pp_i) == pp_idx[pp_i]

\* the refit of one pass of the loop: OLS on x[:, leave_out], all zeros
\* when the system is singular
BetaHat(xm, yv, leave_out) ==
    LET sol == Solve(XtX(xm, leave_out), XtY(xm, leave_out, yv))
    IN  IF sol.status = "raised" THEN [t \in 1..Len(leave_out) |-> FZero]
        ELSE sol.value

\* the score of one pass of the loop
LeaveOutScore(xm, yv, leave_out, ss_all) ==
    LET ss_leaveout == SigmaSquared(xm, leave_out, yv, BetaHat(xm, yv, leave_out))
    IN  IF ss_all = ss_leaveout THEN FZero ELSE OneMinusRatio(ss_all, ss_leaveout)

\* the passes pp_i, pp_i + 1, ... of the loop over pp_idx, from the scores
\* and refits so far
RECURSIVE LeaveOutLoop(_, _, _, _, _, _)
LeaveOutLoop(xm, yv, pp_idx, ss_all, pp_i, acc) ==
    IF pp_i > Len(pp_idx) THEN acc
    ELSE LET leave_out == LeaveOut(pp_idx, pp_i)
             score == LeaveOutScore(xm, yv, leave_out, ss_all)
         IN  LeaveOutLoop(xm, yv, pp_idx, ss_all, pp_i + 1,
                 [scores |-> [acc.scores EXCEPT ![ScoreIndex(pp_idx, pp_i)] = score],
                  refits |-> Append(acc.refits,
                      [lost |-> pp_idx[pp_i], leave_out |-> leave_out, score |-> score])])

\* predict_error_reduction(x, y, betas): the scores, and the refits made
PredictErrorReduction(xm, yv, bs) ==
    LET k == NCols(xm)
        pp_idx == IndexOfNonzeros(bs)
        ss_all == SigmaSquared(xm, [j \in 1..k |-> j], yv, [j \in 1..k |-> FInt(bs[j])])
        zeros == [scores |-> [j \in 1..k |-> FZero], refits |-> <<>>]
    IN  IF Len(pp_idx) = 1
        THEN [zeros EXCEPT !.scores[pp_idx[1]] =
                 OneMinusRatio(ss_all, Var1([i \in 1..Len(yv) |-> FInt(yv[i])]))]
        ELSE LeaveOutLoop(xm, yv, pp_idx, ss_all, 1, zeros)

\* the shapes (n, k) of x, and the coefficients of betas
ErrShapes == { <<2, 1>>, <<2, 2>>, <<2, 3>>, <<3, 2>> }
BetaVals == {0, 1}

InitErr ==
    /\ EngineIdle
    /\ WorkflowIdle
    /\ RefitIdle
    /\ GeneIdle /\ FullIdle /\ PriorIdle /\ SimIdle
    /\ \E sh \in ErrShapes :
          /\ er_x \in [1..sh[1] -> [1..sh[2] -> XVals]]
          /\ er_y \in [1..sh[1] -> YVals]
          /\ er_betas \in [1..sh[2] -> BetaVals]
    /\ error_reduction = [status |-> "pending"]
    /\ refits = <<>>
    /\ er_pc = "call"

\* one call of predict_error_reduction
CallPredictErrorReduction ==
    /\ er_pc = "call"
    /\ LET r == PredictErrorReduction(er_x, er_y, er_betas)
       IN  /\ error_reduction' = [status |-> "returned", value |-> r.scores]
           /\ refits' = r.refits
    /\ er_pc' = "done"
    /\ UNCHANGED <<evars, wvars, bvars, fvars, gvars, pvars, cvars, svars,
                   er_x, er_y, er_betas>>

NextErr == CallPredictErrorReduction

SpecErr == InitErr /\ [][NextErr]_vars

(***************************************************************************)
(* Properties of pileup_data and run()                                     *)
(***************************************************************************)
HasNone(rd) == \E p \in 1..Len(rd) : rd[p].isnone

\* the two matrices of a returned pair
Frames(o) == {o.betas, o.betas_rescale}

\* C1: for every engine with G responses and K predictors and every list of
\* non-None results, pileup_data (and so run()) returns two matrices of shape
\* exactly G x K, rows labelled by the response identifiers and columns by the
\* predictor identifiers, in the engine's stored order.
C1_ShapeAndLabels ==
    (epc = "done" /\ ~HasNone(run_data)) =>
        /\ out.status = "returned"
        /\ \A f \in Frames(out) :
            /\ DOMAIN f.values = 1..G
            /\ \A i \in 1..G : DOMAIN f.values[i] = 1..K
            /\ f.index = genes
            /\ f.columns = tfs
            /\ \A i \in 1..G : f.index[i] = GeneName(i)
            /\ \A j \in 1..K : f.columns[j] = TfName(j)

\* a run over two valid results on an engine with more genes than predictors
C1_Witness ==
    /\ epc = "done"
    /\ G = 2 /\ K = 1
    /\ Len(run_data) = 2
    /\ ~HasNone(run_data)
    /\ out.status = "returned"

\* position (i, j) is (ind, selected predictor) of some result of rd
Written(rd, i, j) ==
    \E p \in 1..Len(rd) : ~rd[p].isnone /\ rd[p].ind + 1 = i /\ rd[p].pp[j]

\* gene i has a result in rd and every result of gene i selects no predictor
NullFit(rd, i) ==
    /\ \E p \in 1..Len(rd) : ~rd[p].isnone /\ rd[p].ind + 1 = i
    /\ \A p \in 1..Len(rd) :
        (~rd[p].isnone /\ rd[p].ind + 1 = i) => \A j \in 1..K : ~rd[p].pp[j]

\* C2: in the returned matrices every entry at a position that is not
\* (ind, selected predictor) of some result is exactly zero; the row of a
\* response whose result selects no predictor is all-zero in both matrices.
C2_ZeroFill ==
    (epc = "done" /\ out.status = "returned") =>
        \A f \in Frames(out) :
            /\ \A i \in 1..G, j \in 1..K :
                ~Written(run_data, i, j) => f.values[i][j] = 0
            /\ \A i \in 1..G :
                NullFit(run_data, i) => \A j \in 1..K : f.values[i][j] = 0

\* a returned pair with one null fit and one fit that selected a predictor
C2_Witness ==
    /\ epc = "done"
    /\ out.status = "returned"
    /\ \E i \in 1..G : NullFit(run_data, i)
    /\ \E i \in 1..G, j \in 1..K : Written(run_data, i, j)
    /\ \E i \in 1..G, j \in 1..K : ~Written(run_data, i, j)

\* the results of rd are all non-None and have pairwise distinct indices
DistinctInd(rd) ==
    /\ ~HasNone(rd)
    /\ \A p, q \in 1..Len(rd) : p # q => rd[p].ind # rd[q].ind

\* the orders in which a parallel map could deliver the results of rd
Reorderings(rd) ==
    LET n == Len(rd)
        perms == { f \in [1..n -> 1..n] : \A a, b \in 1..n : a # b => f[a] # f[b] }
    IN  { [p \in 1..n |-> rd[f[p]]] : f \in perms }

\* the entries of row i of matrix m at the columns mask pp selects
RowAt(m, i, pp) == [n \in 1..CountTrue(pp, K) |->
    m[i][CHOOSE j \in 1..K : pp[j] /\ CountTrue(pp, j) = n]]

\* C4: each result's coefficients and scores are in the row of its own
\* response index, and for results with distinct indices every permutation of
\* the result list yields the same two matrices.
C4_RowByIndex ==
    (epc = "done" /\ DistinctInd(run_data)) =>
        /\ \A p \in 1..Len(run_data) :
            LET d == run_data[p]
            IN  /\ RowAt(out.betas.values, d.ind + 1, d.pp) = d.betas
                /\ RowAt(out.betas_rescale.values, d.ind + 1, d.pp) = d.betas_resc
        /\ \A rd \in Reorderings(run_data) :
            PileupData(G, K, genes, tfs, rd) = out

\* two results delivered in the opposite of gene order, with different values
C4_Witness ==
    /\ epc = "done"
    /\ Len(run_data) = 2
    /\ DistinctInd(run_data)
    /\ run_data[1].ind = 1 /\ run_data[2].ind = 0
    /\ run_data[1].betas # <<>> /\ run_data[2].betas # <<>>
    /\ run_data[1].betas # run_data[2].betas
    /\ out.status = "returned"

(***************************************************************************)
(* Properties of the bootstrap loops                                       *)
(***************************************************************************)
\* the run_bootstrap calls of the current run_regression call, in order
Calls == SelectSeq(log, LAMBDA e : e[1] = "run_bootstrap")

C5_ReseedThenRun ==
    variant = "single" =>
        \A p \in 1..Len(log) :
            LET i == (p - 1) \div 2
            IN  IF p % 2 = 1
                THEN log[p] = <<"seed", random_seed + i>>
                ELSE /\ log[p][1] = "run_bootstrap"
                     /\ log[p][2] = i
                     /\ log[p][3] = SeedState(random_seed + i)

\* the second iteration of a second call, which started on the generator as
\* the first call left it
C5_Witness ==
    /\ variant = "single"
    /\ Len(log) = 4
    /\ Len(runs) = 1
    /\ random_seed = 1

\* C6: the single-task run_regression makes exactly num_bootstraps
\* run_bootstrap calls and returns two sequences of length num_bootstraps
\* whose entry i is what run_bootstrap gave in iteration i.
C6_SingleOutput ==
    (variant = "single" /\ ret.status = "returned") =>
        /\ Len(Calls) = num_bootstraps
        /\ Len(ret.betas) = num_bootstraps
        /\ Len(ret.rescaled_betas) = num_bootstraps
        /\ \A i \in 1..num_bootstraps :
            /\ Calls[i][2] = i - 1
            /\ ret.betas[i] = Calls[i][4].betas
            /\ ret.rescaled_betas[i] = Calls[i][4].betas_rescale

\* a returned run of two iterations that gave different matrices
C6_Witness ==
    /\ variant = "single"
    /\ ret.status = "returned"
    /\ num_bootstraps = 2
    /\ ret.betas[1] # ret.betas[2]

\* C7: the multi-task run_regression returns, for each output, n_tasks
\* sequences of length num_bootstraps; entry [k][i] is task k's matrix of
\* iteration i.
C7_MultiOutput ==
    (variant = "multi" /\ ret.status = "returned") =>
        /\ Len(Calls) = num_bootstraps
        /\ Len(ret.betas) = n_tasks
        /\ Len(ret.rescaled_betas) = n_tasks
        /\ \A k \in 1..n_tasks :
            /\ Len(ret.betas[k]) = num_bootstraps
            /\ Len(ret.rescaled_betas[k]) = num_bootstraps
            /\ \A i \in 1..num_bootstraps :
                /\ Calls[i][2] = i - 1
                /\ ret.betas[k][i] = Calls[i][4][k].betas
                /\ ret.rescaled_betas[k][i] = Calls[i][4][k].betas_rescale

\* a returned multi-task run of two tasks and two iterations
C7_Witness ==
    /\ variant = "multi"
    /\ ret.status = "returned"
    /\ n_tasks = 2
    /\ num_bootstraps = 2
    /\ ret.betas[1][2] # ret.betas[2][1]

\* C8: in both variants every run_bootstrap call of iteration i comes right
\* after np.random.seed(base_seed + i) and finds the generator as that seed
\* left it.
C8_ReseedBothVariants ==
    \A p \in 1..Len(log) :
        log[p][1] = "run_bootstrap" =>
            /\ p > 1
            /\ log[p - 1] = <<"seed", random_seed + log[p][2]>>
            /\ log[p][3] = SeedState(random_seed + log[p][2])

\* C9: two run_regression calls on the same workflow (same inputs, same base
\* seed) give their callers the same result, whatever state the global
\* generator was in when each started.
C9_Reproducible ==
    \A a, b \in 1..Len(runs) : runs[a] = runs[b]

\* the single-task half of C8 and C9, which the code does satisfy
SingleTaskReseeded == variant = "single" => C8_ReseedBothVariants
SingleTaskReproducible == variant = "single" => C9_Reproducible

(***************************************************************************)
(* Properties of recalculate_betas_from_selected                           *)
(***************************************************************************)
\* the columns of x that `sel` selects are linearly dependent: some integer
\* combination of them, not all coefficients zero, is the zero vector
Dependent ==
    LET cols == SortedSeq(Selected(sel, Len(x[1])))
        m == Len(cols)
        span == (0 - 2)..2
    IN  \E c \in [1..m -> span] :
            /\ \E a \in 1..m : c[a] # 0
            /\ \A n \in 1..Len(x) :
                SumTo([a \in 1..m |-> c[a] * x[n][cols[a]]], m) = 0

\* C10: on a rank-deficient Gram matrix of the selected predictors (their
\* columns are linearly dependent) recalculate_betas_from_selected does not
\* raise and returns a length-K vector that is all zero; whenever it returns,
\* the vector has length K and the coefficient of every unselected predictor
\* is 0.
C10_NullModelOnSingular ==
    fpc = "done" =>
        LET k == Len(x[1])
            chosen == Selected(sel, k)
        IN  /\ (chosen # {} /\ (Dependent \/ Det(XtX(x, SortedSeq(chosen))) = 0)) =>
                /\ best_betas.status = "returned"
                /\ DOMAIN best_betas.value = 1..k
                /\ \A j \in 1..k : best_betas.value[j] = FZero
            /\ best_betas.status = "returned" =>
                /\ DOMAIN best_betas.value = 1..k
                /\ \A j \in (1..k) \ chosen : best_betas.value[j] = FZero

\* two selected predictors with the same non-zero column (collinear), a
\* non-zero response, and the all-zero vector returned
C10_Witness ==
    /\ fpc = "done"
    /\ Len(x[1]) = 2
    /\ Selected(sel, 2) = {1, 2}
    /\ \A n \in 1..Len(x) : x[n][1] = x[n][2]
    /\ \E n \in 1..Len(x) : x[n][1] # 0 /\ y[n] # 0
    /\ best_betas = [status |-> "returned", value |-> <<FZero, FZero>>]

\* a full-rank refit that leaves a predictor out and fits the other
C10_WitnessUnselected ==
    /\ fpc = "done"
    /\ Len(x[1]) = 2
    /\ Selected(sel, 2) = {2}
    /\ best_betas.status = "returned"
    /\ best_betas.value[2] # FZero
    /\ \E n \in 1..Len(x) : x[n][1] # 0

(***************************************************************************)
(* Properties of gene_preprocess                                           *)
(***************************************************************************)
\* the sizes handed to gene_preprocess do not fit together
SizeMismatch == Len(gp_Y) # Len(gp_X) \/ Len(gp_prior) # NCols(gp_X)

\* C11: gene_preprocess fails with a dimension error whenever the length of
\* Y_row differs from X's sample count or the length of the gene's prior row
\* differs from X's predictor count, whatever remove_circularity is set to
C11_DimensionError ==
    (gp_pc = "done" /\ SizeMismatch) => gp_out.status = "raised"

\* with remove_circularity set the sizes are checked
GeneChecksWhenRemoving ==
    (gp_pc = "done" /\ SizeMismatch /\ remove_circularity)
        => gp_out.status = "raised"

\* whatever is returned has the sizes it was given: nothing is cut or padded
GeneKeepsSizes ==
    (gp_pc = "done" /\ gp_out.status = "returned")
        => /\ Len(gp_out.X) = Len(gp_X)
           /\ NCols(gp_out.X) = NCols(gp_X)
           /\ Len(gp_out.Y) = Len(gp_Y)

(***************************************************************************)
(* Properties of full_preprocess                                           *)
(***************************************************************************)
\* C12: full_preprocess leaves the caller's X and Y as they were, for a
\* single matrix and for every element of a list, whatever ddof is
C12_NoMutation ==
    fp_pc = "done" => (fp_X = fp_X0 /\ fp_Y = fp_Y0)

\* a single matrix is never changed in place
SingleNotMutated ==
    (fp_pc = "done" /\ ~fp_X0.islist) => (fp_X = fp_X0 /\ fp_Y = fp_Y0)

\* the argument that holds just element i of a list argument
Alone(arg, i) == [islist |-> FALSE, items |-> <<arg.items[i]>>]

\* C13: on a list, full_preprocess gives for each element what it gives
\* for that element passed as a single matrix, whatever ddof and scale_y
\* are; for X and for Y
C13_ElementWise ==
    (fp_pc = "done" /\ fp_X0.islist) =>
        \A i \in 1..Len(fp_X0.items) :
            LET one == FullPreprocess(Alone(fp_X0, i), Alone(fp_Y0, i), ddof, scale_y)
            IN  /\ fp_out.X[i] = one.X[1]
                /\ fp_out.Y[i] = one.Y[1]

\* with the default ddof the list and the single matrix agree
ElementWiseAtDefault ==
    (fp_pc = "done" /\ fp_X0.islist /\ ddof = 1) =>
        \A i \in 1..Len(fp_X0.items) :
            LET one == FullPreprocess(Alone(fp_X0, i), Alone(fp_Y0, i), ddof, scale_y)
            IN  /\ fp_out.X[i] = one.X[1]
                /\ fp_out.Y[i] = one.Y[1]

(***************************************************************************)
(* Properties of the prior matrix at construction                          *)
(***************************************************************************)
\* the entry the caller supplied for a pair of ids, if any
Supplied(rlabel, clabel) ==
    rlabel \in Range(prior_in.index) /\ clabel \in Range(prior_in.columns)

SuppliedEntry(rlabel, clabel) ==
    prior_in.values[PosOf(prior_in.index, rlabel)][PosOf(prior_in.columns, clabel)]

\* C14: construction leaves the prior reindexed to (response ids x
\* predictor ids), each entry the supplied one when the caller gave one and
\* zero when not, and does not fail because an entry is missing
C14_ReindexZeroFill ==
    cpc # "call" =>
        /\ cpc = "done"
        /\ prior_mat.index = genes
        /\ prior_mat.columns = tfs
        /\ \A i \in 1..G, j \in 1..K :
              prior_mat.values[i][j] =
                  IF Supplied(genes[i], tfs[j])
                  THEN Cell(SuppliedEntry(genes[i], tfs[j]))
                  ELSE Cell(0)

\* when the caller's prior has every id, the engine's prior is its
\* (response ids x predictor ids) part, in the order of the ids
PriorKeptWhenComplete ==
    (cpc # "call" /\ \A i \in 1..G, j \in 1..K : Supplied(genes[i], tfs[j])) =>
        /\ cpc = "done"
        /\ prior_mat.index = genes
        /\ prior_mat.columns = tfs
        /\ \A i \in 1..G, j \in 1..K :
              prior_mat.values[i][j] = Cell(SuppliedEntry(genes[i], tfs[j]))

\* a missing entry is never filled with zero
PriorNeverZeroFilled ==
    \A i \in 1..G, j \in 1..K :
        (cpc # "call" /\ ~Supplied(genes[i], tfs[j])) =>
            \/ cpc = "raised"
            \/ prior_mat.values[i][j] = NaN

(***************************************************************************)
(* Properties of make_data_noisy                                           *)
(***************************************************************************)
\* C15: on integer count data make_data_noisy puts simulated counts in
\* place of the expression matrix, and every sample's total is its total
\* of before, whatever the probabilities and whatever is drawn
C15_SampleTotalsKept ==
    (spc # "call" /\ is_integer /\ ProbSumsToOne(expr0)) =>
        /\ spc = "done"
        /\ SampleCountsOf(expr) = SampleCountsOf(expr0)

\* the totals are kept when the data fits one chunk and every sample's
\* draw reaches the last gene
TotalsKeptWhenLastGeneDrawn ==
    (spc = "call" /\ is_integer /\ ProbSumsToOne(expr) /\ Len(expr) <= RowChunk) =>
        \A draws \in AllDraws(expr) :
            (\A i \in 1..Len(expr) : draws[i][NCols(expr)] > 0) =>
                LET r == SimInts(SampleCountsOf(expr), draws, NCols(expr))
                IN  /\ r.status = "returned"
                    /\ SampleCountsOf(r.value) = SampleCountsOf(expr)

\* the shape (samples, genes) of a matrix
Shape(m) == <<Len(m), NCols(m)>>

\* the data spans one chunk only: of rows on the integer path, of columns
\* on the float path
OneChunk ==
    IF is_integer THEN Len(expr0) <= RowChunk ELSE NCols(expr0) <= ColChunk

\* C17: the matrix the noise simulation produces has the shape (samples x
\* genes) of its input, whatever the size of the input and however many
\* chunks it spans
C17_SameShape ==
    spc = "done" => Shape(expr) = Shape(expr0)

\* data of one chunk keeps its shape
OneChunkKeepsShape ==
    (spc = "done" /\ OneChunk) => Shape(expr) = Shape(expr0)

\* float data of more than one chunk of columns never keeps its shape
FloatChunksMisassembled ==
    (spc # "call" /\ ~is_integer /\ ~OneChunk) =>
        (spc = "raised" \/ Shape(expr) # Shape(expr0))

\* integer data of more than one chunk of rows never keeps its shape
IntChunksMisassembled ==
    (spc # "call" /\ is_integer /\ ~OneChunk) =>
        (spc = "raised" \/ Shape(expr) # Shape(expr0))

(***************************************************************************)
(* Properties of predict_error_reduction                                   *)
(***************************************************************************)
\* the predictors with a non-zero coefficient, in increasing order
SelectedIdx == SortedSeq({ j \in 1..Len(er_betas) : er_betas[j] # 0 })

\* the score of the direct path: 1 - ss_all / var(y)
DirectScore ==
    OneMinusRatio(
        SigmaSquared(er_x, [j \in 1..Len(er_betas) |-> j], er_y,
                     [j \in 1..Len(er_betas) |-> FInt(er_betas[j])]),
        Var1([i \in 1..Len(er_y) |-> FInt(er_y[i])]))

\* C16: predict_error_reduction returns one score per predictor, 0 for
\* every predictor with a zero coefficient; with exactly one non-zero
\* coefficient it makes no refit and the score is 1 - ss_all / var(y);
\* with two or more it makes one refit per selected predictor, over the
\* selected predictors without that one, and writes the score of the
\* refit at the index of the predictor left out
C16_ErrorReduction ==
    er_pc = "done" =>
        /\ Len(error_reduction.value) = NCols(er_x)
        /\ \A j \in 1..Len(er_betas) :
              er_betas[j] = 0 => error_reduction.value[j] = FZero
        /\ Len(SelectedIdx) = 1 =>
              /\ refits = <<>>
              /\ error_reduction.value[SelectedIdx[1]] = DirectScore
        /\ Len(SelectedIdx) # 1 =>
              /\ Len(refits) = Len(SelectedIdx)
              /\ \A p \in 1..Len(refits) :
                    /\ refits[p].lost = SelectedIdx[p]
                    /\ Range(refits[p].leave_out) = Range(SelectedIdx) \ {SelectedIdx[p]}
                    /\ Len(refits[p].leave_out) = Len(SelectedIdx) - 1
                    /\ error_reduction.value[SelectedIdx[p]] = refits[p].score

\* a call with two selected predictors that are not the first two, and
\* scores that differ
C16_Witness ==
    /\ er_pc = "done"
    /\ SelectedIdx = <<2, 3>>
    /\ Len(refits) = 2
    /\ refits[1].score # refits[2].score
    /\ error_reduction.value[3] # FZero

\* a call on the direct path
C16_WitnessDirect ==
    /\ er_pc = "done"
    /\ Len(SelectedIdx) = 1
    /\ error_reduction.value[SelectedIdx[1]] \notin {FZero, FNaN, FNegInf}

====
